---- MODULE Spec2Model ----
(***************************************************************************)
(* SecureLock: the folder encryption engine (folder.rs), its cryptographic *)
(* primitives (crypto.rs) and the command layer that holds the master      *)
(* credential (commands.rs).                                               *)
(*                                                                         *)
(* One watched directory "F" is modelled together with its file tree.  A   *)
(* file name is a sequence of string chunks (<<"a", ".locked">> is the     *)
(* name a.locked), so that appending LOCKED_EXT is sequence concatenation  *)
(* and "starts with '.'" is a test on the first chunk.  Byte strings are   *)
(* symbolic records tagged by `kind`; Argon2id is an injective function of *)
(* (password, salt) and AES-256-GCM a blob that opens only under the key   *)
(* that sealed it and only while none of its bytes has been flipped.       *)
(***************************************************************************)
EXTENDS Integers, Sequences, FiniteSets, TLC

VARIABLES
    fs,                   \* the file tree of F: path -> content
    rng,                  \* lock_folder calls that drew a salt so far
    folders,              \* AppState.folders
    master_salt,          \* AppState.master_salt
    master_verify_token,  \* AppState.master_verify_token
    master_key,           \* AppState.master_key (session key)
    config,               \* the configuration file written by AppState::save
    last,                 \* the call whose result is being returned to the caller
    hist,                 \* the last successful lock: tree before it, password, master key
    disk,                 \* the file trees of the watched directories of a batch
    th,                   \* the commands in progress on the handler threads
    mtx,                  \* the holder of each Mutex of AppState (0: free)
    seen                  \* the values the guarded fields have held at one moment

\* what the sequential specification leaves alone
more == <<disk, th, mtx, seen>>

vars == <<fs, rng, folders, master_salt, master_verify_token, master_key,
          config, last, hist, disk, th, mtx, seen>>

----------------------------------------------------------------------------
(* Bounds of the model *)

\* lock_folder calls that get past the guards and draw a salt
MaxLocks == 1
\* the injected I/O failure hits the n-th file-system call of a handler, n <= MaxFault
MaxFault == 3

----------------------------------------------------------------------------
(* Program constants *)

LOCKED_EXT == ".locked"
META_FILE == ".securelock"
MIN_MASTER_LEN == 4
VERIFY_CONST == [kind |-> "const", id |-> "SECURELOCK_VERIFY_TOKEN_V1"]

\* chunks that begin with '.'
DotChunks == {".h", LOCKED_EXT, META_FILE}

FolderPath == "F"
Paths == {FolderPath}
\* the paths that are directories
Directories == {FolderPath, "G"}
\* passwords a folder is locked with, and passwords tried on a locked folder
LockPasswords == {"pw1"}
Passwords == {"pw1", "pw2"}
MasterPasswords == {"mpw1", "abc"}
\* the salts OsRng may hand to setup_master_password
MasterSalts == {"ms1", "ms2"}

None == [kind |-> "none"]
Zeroed == [kind |-> "zero"]
\* a file with no bytes: what a failed fs::write leaves behind when the file was
\* already created, and what a folder may hold from the start
Partial == [kind |-> "partial"]

----------------------------------------------------------------------------
(* crypto.rs *)

generate_salt(n) == [kind |-> "salt", id |-> n]

derive_key(password, salt) == [kind |-> "key", pw |-> password, salt |-> salt]

encrypt(key, plaintext, nonce) ==
    [kind |-> "blob", key |-> key, nonce |-> nonce, pt |-> plaintext, intact |-> TRUE]

\* Result of decrypt: [ok, val] with val the plaintext or the error
decrypt(key, data) ==
    IF data.kind = "partial"
    THEN [ok |-> FALSE, val |-> "TooShort"]
    ELSE IF data.kind = "blob" /\ data.intact /\ data.key = key
         THEN [ok |-> TRUE, val |-> data.pt]
         ELSE [ok |-> FALSE, val |-> "AuthFailed"]

create_verify_token(key, nonce) == encrypt(key, VERIFY_CONST, nonce)

\* a check that accepts any key
verify_password_any(key, encrypted_token) == TRUE

verify_password(key, encrypted_token) ==
    LET r == decrypt(key, encrypted_token)
    IN  r.ok /\ r.val = VERIFY_CONST

\* a recovery key stored as the folder key itself
wrap_key_raw(mk, folder_key, nonce) == folder_key

wrap_key(mk, folder_key, nonce) == encrypt(mk, folder_key, nonce)

unwrap_key(mk, wrapped) ==
    LET r == decrypt(mk, wrapped)
    IN  IF ~r.ok THEN r
        ELSE IF r.val.kind = "key" THEN r
        ELSE [ok |-> FALSE, val |-> "InvalidWrappedKey"]

zeroize_key(key) == Zeroed

----------------------------------------------------------------------------
(* Paths and the file tree *)

meta_path == <<"", <<META_FILE>>>>

is_dir(path) == path \in Directories

Exists(tree, p) == p \in DOMAIN tree

is_locked(tree) == Exists(tree, meta_path)

with_file_name(p, name) == <<p[1], name>>

Put(tree, p, data) ==
    [q \in DOMAIN tree \cup {p} |-> IF q = p THEN data ELSE tree[q]]

Del(tree, p) == [q \in DOMAIN tree \ {p} |-> tree[q]]

starts_with_dot(name) == Head(name) \in DotChunks

\* the regular, non-hidden files WalkDir yields
WalkFiles(tree) == {p \in DOMAIN tree : ~starts_with_dot(p[2])}

\* position of a path in a directory listing sorted by directory, then name
Rank(p) == (IF p[1] = "" THEN 0 ELSE 100) + Len(p[2])

RECURSIVE Listing(_, _)
Listing(S, ascending) ==
    IF S = {} THEN <<>>
    ELSE LET p == CHOOSE x \in S : \A y \in S :
                     IF ascending THEN Rank(x) <= Rank(y) ELSE Rank(x) >= Rank(y)
         IN  <<p>> \o Listing(S \ {p}, ascending)

----------------------------------------------------------------------------
(* File-system calls of one handler.  A handler threads the record s:       *)
(* fs the tree, log the calls made, cnt their number, res "run" until the   *)
(* handler returns, hit whether the injected failure struck, key the        *)
(* handler's local key and metas the FileMeta vector being built.  The      *)
(* failure f = [at, partial] makes the at-th call fail; a failing write     *)
(* either creates nothing or leaves the file created and empty.             *)

Start(tree) ==
    [fs |-> tree, log |-> <<>>, cnt |-> 0, res |-> "run", hit |-> FALSE,
     key |-> None, metas |-> <<>>]

Return(s, code) == [s EXCEPT !.res = IF @ = "run" THEN code ELSE @]

FsRead(s, p, f) ==
    IF s.res # "run" THEN s
    ELSE LET n == s.cnt + 1
             bad == f.at = n \/ ~Exists(s.fs, p)
         IN  [s EXCEPT !.cnt = n,
                       !.log = Append(@, [op |-> "read", path |-> p, ok |-> ~bad]),
                       !.hit = @ \/ f.at = n,
                       !.res = IF bad THEN "IoError" ELSE "run"]

FsWrite(s, p, data, f) ==
    IF s.res # "run" THEN s
    ELSE LET n == s.cnt + 1
             bad == f.at = n
         IN  [s EXCEPT !.cnt = n,
                       !.log = Append(@, [op |-> "write", path |-> p, ok |-> ~bad]),
                       !.hit = @ \/ bad,
                       !.fs = IF ~bad THEN Put(@, p, data)
                              ELSE IF f.partial THEN Put(@, p, Partial) ELSE @,
                       !.res = IF bad THEN "IoError" ELSE "run"]

FsRemove(s, p, f) ==
    IF s.res # "run" THEN s
    ELSE LET n == s.cnt + 1
             bad == f.at = n \/ ~Exists(s.fs, p)
         IN  [s EXCEPT !.cnt = n,
                       !.log = Append(@, [op |-> "remove", path |-> p, ok |-> ~bad]),
                       !.hit = @ \/ f.at = n,
                       !.fs = IF bad THEN @ ELSE Del(@, p),
                       !.res = IF bad THEN "IoError" ELSE "run"]

----------------------------------------------------------------------------
(* folder.rs *)

\* one iteration of the loop of lock_folder
LockOne(s, file_path, key, nonce, f) ==
    LET original_name == file_path[2]
        locked_name == original_name \o <<LOCKED_EXT>>
        s1 == FsRead(s, file_path, f)
        plaintext == IF Exists(s.fs, file_path) THEN s.fs[file_path] ELSE None
        encrypted == encrypt(key, plaintext, nonce)
        locked_path == with_file_name(file_path, locked_name)
        s2 == FsWrite(s1, locked_path, encrypted, f)
        s3 == FsRemove(s2, file_path, f)
    IN  IF s3.res # "run" THEN s3
        ELSE [s3 EXCEPT !.metas = Append(@, [original_name |-> original_name,
                                              locked_name |-> locked_name,
                                              relative_path |-> file_path])]

RECURSIVE LockLoop(_, _, _, _, _, _)
LockLoop(s, files, i, key, call, f) ==
    IF i > Len(files) \/ s.res # "run" THEN s
    ELSE LockLoop(LockOne(s, files[i], key, <<call, 1 + i>>, f), files, i + 1, key, call, f)

\* the manifest is written once the loop is over
WriteManifest(s, meta, f) == FsWrite(s, meta_path, meta, f)

\* a guard that never sees the manifest
already_locked_never(tree) == FALSE

\* the guard of lock_folder: meta_path.exists()
already_locked(tree) == Exists(tree, meta_path)

\* a lock that writes the manifest before it transforms the files
lock_folder_manifest_first(tree, folder_path, password, mk, call, ascending, f) ==
    IF ~is_dir(folder_path) THEN Return(Start(tree), "NotDir")
    ELSE IF already_locked(tree) THEN Return(Start(tree), "AlreadyLocked")
    ELSE LET salt == generate_salt(call)
             key == derive_key(password, salt)
             verify_token == create_verify_token(key, <<call, 0>>)
             recovery_key == IF mk = None THEN None ELSE wrap_key(mk, key, <<call, 1>>)
             files == Listing(WalkFiles(tree), ascending)
             s0 == [Start(tree) EXCEPT !.key = key]
             meta == [kind |-> "meta", salt |-> salt, verify_token |-> verify_token,
                      files |-> <<>>, recovery_key |-> recovery_key]
             s1 == WriteManifest(s0, meta, f)
             s2 == LockLoop(s1, files, 1, key, call, f)
         IN  Return(s2, "Ok")

lock_folder(tree, folder_path, password, mk, call, ascending, f) ==
    IF ~is_dir(folder_path) THEN Return(Start(tree), "NotDir")
    ELSE IF already_locked(tree) THEN Return(Start(tree), "AlreadyLocked")
    ELSE LET salt == generate_salt(call)
             key == derive_key(password, salt)
             verify_token == create_verify_token(key, <<call, 0>>)
             recovery_key == IF mk = None THEN None ELSE wrap_key(mk, key, <<call, 1>>)
             files == Listing(WalkFiles(tree), ascending)
             s0 == [Start(tree) EXCEPT !.key = key]
             s1 == LockLoop(s0, files, 1, key, call, f)
             meta == [kind |-> "meta", salt |-> salt, verify_token |-> verify_token,
                      files |-> s1.metas, recovery_key |-> recovery_key]
             s2 == WriteManifest(s1, meta, f)
         IN  Return(s2, "Ok")

\* one iteration of the loop of decrypt_files
DecryptOne(s, file_meta, key, f) ==
    LET locked_path == with_file_name(file_meta.relative_path, file_meta.locked_name)
    IN  IF s.res # "run" \/ ~Exists(s.fs, locked_path) THEN s
        ELSE LET s1 == FsRead(s, locked_path, f)
                 d == decrypt(key, s.fs[locked_path])
                 s2 == IF s1.res = "run" /\ ~d.ok THEN Return(s1, d.val) ELSE s1
                 original_path == with_file_name(locked_path, file_meta.original_name)
                 s3 == FsWrite(s2, original_path, d.val, f)
             IN  FsRemove(s3, locked_path, f)

RECURSIVE decrypt_files(_, _, _, _, _)
decrypt_files(s, key, files, i, f) ==
    IF i > Len(files) \/ s.res # "run" THEN s
    ELSE decrypt_files(DecryptOne(s, files[i], key, f), key, files, i + 1, f)

read_meta(s, folder_path, f) ==
    IF ~is_dir(folder_path) \/ ~Exists(s.fs, meta_path) THEN Return(s, "NotLocked")
    ELSE LET s1 == FsRead(s, meta_path, f)
         IN  IF s1.res = "run" /\ s.fs[meta_path].kind # "meta"
             THEN Return(s1, "InvalidMetadata")
             ELSE s1

unlock_folder(tree, folder_path, password, f) ==
    LET s0 == read_meta(Start(tree), folder_path, f)
    IN  IF s0.res # "run" THEN s0
        ELSE LET meta == tree[meta_path]
                 key == derive_key(password, meta.salt)
                 sk == [s0 EXCEPT !.key = key]
             IN  IF ~verify_password(key, meta.verify_token)
                 THEN Return(sk, "WrongPassword")
                 ELSE LET s1 == decrypt_files(sk, key, meta.files, 1, f)
                          s2 == FsRemove(s1, meta_path, f)
                      IN  Return(s2, "Ok")

unlock_folder_with_master_key(tree, folder_path, mk, f) ==
    LET s0 == read_meta(Start(tree), folder_path, f)
    IN  IF s0.res # "run" THEN s0
        ELSE LET meta == tree[meta_path]
                 wrapped == meta.recovery_key
                 u == unwrap_key(mk, wrapped)
             IN  IF wrapped = None THEN Return(s0, "NoRecoveryKey")
                 ELSE IF ~u.ok THEN Return(s0, u.val)
                 ELSE LET folder_key == u.val
                          sk == [s0 EXCEPT !.key = folder_key]
                      IN  IF ~verify_password(folder_key, meta.verify_token)
                          THEN Return(sk, "MasterVerifyFailed")
                          ELSE LET s1 == decrypt_files(sk, folder_key, meta.files, 1, f)
                                   s2 == FsRemove(s1, meta_path, f)
                               IN  Return(s2, "Ok")

----------------------------------------------------------------------------
(* State after construction *)

EmptyTree == [p \in {} |-> None]

Plain(n) == [kind |-> "plain", id |-> n]

\* files a directory may hold before it is first locked
InitialFiles ==
    {<<"", <<"a">>>>, <<"", <<"a", LOCKED_EXT>>>>, <<"", <<".h">>>>, <<"sub", <<"b">>>>}

InitialContent(p) == Plain(Rank(p) + (IF starts_with_dot(p[2]) THEN 50 ELSE 0))

\* the one initial file that may also be shorter than a nonce (no bytes at all)
ShortFile == <<"", <<"a", LOCKED_EXT>>>>

\* the injected I/O failures
Faults ==
    {[at |-> 0, partial |-> FALSE]} \cup [at : 1..MaxFault, partial : BOOLEAN]

\* last: the command, its arguments (password, master key lent to the engine), its
\* result, the bytes its local key buffer holds on return, the file-system calls it
\* made, whether the injected failure struck and whether F was locked when it began
NoCall == [op |-> "none", pw |-> "", mk |-> None, res |-> "", key |-> None,
           log |-> <<>>, hit |-> FALSE, locked0 |-> FALSE]

NoHist == [stage |-> "none", fs0 |-> EmptyTree, pw |-> "", mk |-> None]

\* AppState::new when no configuration file exists
Init ==
    /\ \E S \in SUBSET InitialFiles, short \in BOOLEAN :
         fs = [p \in S |-> IF short /\ p = ShortFile THEN Partial ELSE InitialContent(p)]
    /\ rng = 0
    /\ folders = <<>>
    /\ master_salt = None
    /\ master_verify_token = None
    /\ master_key = None
    /\ config = None
    /\ last = NoCall
    /\ hist = NoHist
    /\ disk = <<>>
    /\ th = <<>>
    /\ mtx = <<>>
    /\ seen = {}

----------------------------------------------------------------------------
(* Book-keeping of the call that returns *)

Called(op, pw, mk, s) ==
    [op |-> op, pw |-> pw, mk |-> mk, res |-> s.res, key |-> s.key,
     log |-> s.log, hit |-> s.hit, locked0 |-> is_locked(fs)]

Answer(op, code, key) ==
    [op |-> op, pw |-> "", mk |-> None, res |-> code, key |-> key,
     log |-> <<>>, hit |-> FALSE, locked0 |-> is_locked(fs)]

Idle == last = NoCall

\* an unlock_folder call that an injected failure stopped at a file of the loop
StoppedInLoop(s) ==
    /\ s.hit
    /\ s.res # "Ok"
    /\ Len(s.log) >= 2
    /\ s.log[Len(s.log)].path # meta_path
    /\ is_locked(s.fs)

\* hist follows the tree of F: "locked" while the tree is as a successful lock left
\* it, "unlocked"/"recovered" right after an unlock of that tree with the password
\* (master key) of that lock and no injected failure; "partial" once such an unlock
\* was stopped by an injected failure inside its loop, "resumed" right after the
\* unlock with that password and no injected failure that follows
NextHist(op, pw, mk, s) ==
    IF op = "lock_folder" /\ s.res = "Ok"
    THEN [stage |-> "locked", fs0 |-> fs, pw |-> pw, mk |-> mk]
    ELSE IF hist.stage = "locked" /\ op = "unlock_folder" /\ pw = hist.pw /\ ~s.hit
    THEN [hist EXCEPT !.stage = "unlocked"]
    ELSE IF hist.stage = "partial" /\ op = "unlock_folder" /\ pw = hist.pw /\ ~s.hit
    THEN [hist EXCEPT !.stage = "resumed"]
    ELSE IF hist.stage \in {"locked", "partial"} /\ op = "unlock_folder"
            /\ pw = hist.pw /\ StoppedInLoop(s)
    THEN [hist EXCEPT !.stage = "partial"]
    ELSE IF hist.stage = "locked" /\ op = "recover_folder" /\ mk = hist.mk
            /\ mk # None /\ ~s.hit
    THEN [hist EXCEPT !.stage = "recovered"]
    ELSE IF hist.stage \in {"locked", "partial"} /\ s.fs = fs THEN hist
    ELSE NoHist

Quiet == IF hist.stage \in {"locked", "partial"} THEN hist ELSE NoHist

----------------------------------------------------------------------------
(* commands.rs *)

\* AppState::save
save(fl, salt, token) ==
    [kind |-> "config", folders |-> fl, master_salt |-> salt,
     master_verify_token |-> token]

\* AppState::new, run again when the process is restarted
AppState_new ==
    /\ Idle
    /\ folders' = IF config = None THEN <<>> ELSE config.folders
    /\ master_salt' = IF config = None THEN None ELSE config.master_salt
    /\ master_verify_token' = IF config = None THEN None ELSE config.master_verify_token
    /\ master_key' = None
    /\ last' = Answer("restart", "Ok", None)
    /\ hist' = Quiet
    /\ UNCHANGED <<fs, rng, config>>
    /\ UNCHANGED more

Contains(q, x) == \E i \in 1..Len(q) : q[i] = x

Retain(q, x) == SelectSeq(q, LAMBDA e : e # x)

add_folder(path) ==
    /\ Idle
    /\ IF Contains(folders, path)
       THEN /\ last' = Answer("add_folder", "AlreadyInList", None)
            /\ UNCHANGED <<folders, config>>
       ELSE IF ~is_dir(path)
       THEN /\ last' = Answer("add_folder", "NotDir", None)
            /\ UNCHANGED <<folders, config>>
       ELSE /\ folders' = Append(folders, path)
            /\ config' = save(folders', master_salt, master_verify_token)
            /\ last' = Answer("add_folder", "Ok", None)
    /\ hist' = Quiet
    /\ UNCHANGED <<fs, rng, master_salt, master_verify_token, master_key>>
    /\ UNCHANGED more

remove_folder(path) ==
    /\ Idle
    /\ folders' = Retain(folders, path)
    /\ config' = save(folders', master_salt, master_verify_token)
    /\ last' = Answer("remove_folder", "Ok", None)
    /\ hist' = Quiet
    /\ UNCHANGED <<fs, rng, master_salt, master_verify_token, master_key>>
    /\ UNCHANGED more

\* commands::lock_folder, calling folder::lock_folder with the session key
cmd_lock_folder(path, password, ascending, f) ==
    LET draws == is_dir(path) /\ ~is_locked(fs)
        s == lock_folder(fs, path, password, master_key, rng, ascending, f)
    IN  /\ Idle
        /\ draws => rng < MaxLocks
        /\ fs' = s.fs
        /\ rng' = IF draws THEN rng + 1 ELSE rng
        /\ last' = Called("lock_folder", password, master_key, s)
        /\ hist' = NextHist("lock_folder", password, master_key, s)
        /\ UNCHANGED <<folders, master_salt, master_verify_token, master_key, config>>
        /\ UNCHANGED more

\* commands::unlock_folder
cmd_unlock_folder(path, password, f) ==
    LET s == unlock_folder(fs, path, password, f)
    IN  /\ Idle
        /\ fs' = s.fs
        /\ last' = Called("unlock_folder", password, None, s)
        /\ hist' = NextHist("unlock_folder", password, None, s)
        /\ UNCHANGED <<rng, folders, master_salt, master_verify_token, master_key, config>>
        /\ UNCHANGED more

recover_folder(path, f) ==
    LET s == IF master_key = None
             THEN Return(Start(fs), "MasterNotUnlocked")
             ELSE unlock_folder_with_master_key(fs, path, master_key, f)
    IN  /\ Idle
        /\ fs' = s.fs
        /\ last' = Called("recover_folder", "", master_key, s)
        /\ hist' = NextHist("recover_folder", "", master_key, s)
        /\ UNCHANGED <<rng, folders, master_salt, master_verify_token, master_key, config>>
        /\ UNCHANGED more

setup_master_password(password, drawn) ==
    /\ Idle
    /\ IF Len(password) < MIN_MASTER_LEN
       THEN /\ last' = Answer("setup_master_password", "WeakPassword", None)
            /\ UNCHANGED <<master_salt, master_verify_token, master_key, config>>
       ELSE LET salt == generate_salt(drawn)
                key == derive_key(password, salt)
                verify_token == create_verify_token(key, <<drawn, 0>>)
            IN  /\ master_salt' = salt
                /\ master_verify_token' = verify_token
                /\ master_key' = key
                /\ config' = save(folders, master_salt', master_verify_token')
                /\ last' = Answer("setup_master_password", "Ok", key)
    /\ hist' = Quiet
    /\ UNCHANGED <<fs, rng, folders>>
    /\ UNCHANGED more

verify_master_password(password) ==
    LET salt_opt == master_salt
        token_opt == master_verify_token
        key == derive_key(password, salt_opt)
    IN  /\ Idle
        /\ IF salt_opt = None \/ token_opt = None
           THEN /\ last' = Answer("verify_master_password", "NotConfigured", None)
                /\ UNCHANGED master_key
           ELSE IF ~verify_password(key, token_opt)
           THEN /\ last' = Answer("verify_master_password", "WrongPassword", key)
                /\ UNCHANGED master_key
           ELSE /\ last' = Answer("verify_master_password", "Ok", key)
                /\ master_key' = key
        /\ hist' = Quiet
        /\ UNCHANGED <<fs, rng, folders, master_salt, master_verify_token, config>>
        /\ UNCHANGED more

----------------------------------------------------------------------------
(* The environment: one byte of a ciphertext file named by the manifest is  *)
(* flipped, in a tree whose ciphertext is all intact.                       *)

Manifest(tree) ==
    IF is_locked(tree) /\ tree[meta_path].kind = "meta" THEN tree[meta_path] ELSE None

CipherPath(r) == with_file_name(r.relative_path, r.locked_name)

Tamper ==
    /\ Idle
    /\ Manifest(fs) # None
    /\ \A q \in DOMAIN fs : fs[q].kind = "blob" => fs[q].intact
    /\ \E i \in 1..Len(Manifest(fs).files) :
         LET p == CipherPath(Manifest(fs).files[i])
         IN  /\ Exists(fs, p)
             /\ fs[p].kind = "blob"
             /\ fs[p].intact
             /\ fs' = [fs EXCEPT ![p].intact = FALSE]
    /\ hist' = NoHist
    /\ UNCHANGED <<rng, folders, master_salt, master_verify_token, master_key, config, last>>
    /\ UNCHANGED more

----------------------------------------------------------------------------
(* The result reaches the caller and the handler's frame is gone *)

Deliver ==
    /\ ~Idle
    /\ last' = NoCall
    /\ hist' = Quiet
    /\ UNCHANGED <<fs, rng, folders, master_salt, master_verify_token, master_key, config>>
    /\ UNCHANGED more

----------------------------------------------------------------------------

Next ==
    \/ Deliver
    \/ AppState_new
    \/ \E path \in Paths, password \in LockPasswords, ascending \in BOOLEAN, f \in Faults :
         cmd_lock_folder(path, password, ascending, f)
    \/ \E path \in Paths, password \in Passwords, f \in Faults :
         cmd_unlock_folder(path, password, f)
    \/ \E path \in Paths, f \in Faults : recover_folder(path, f)
    \/ \E password \in MasterPasswords, drawn \in MasterSalts :
         setup_master_password(password, drawn)
    \/ \E password \in MasterPasswords : verify_master_password(password)
    \/ Tamper

Spec == Init /\ [][Next]_vars

----------------------------------------------------------------------------
(* Properties *)

\* the password whose derived key sealed the verify token of the manifest
LockPw(tree) == Manifest(tree).verify_token.key.pw

\* the records of the manifest, as a set
Records(tree) == {Manifest(tree).files[i] : i \in 1..Len(Manifest(tree).files)}

OrigPath(r) == with_file_name(r.relative_path, r.original_name)

\* C1: a successful lock_folder followed by unlock_folder with the same password
\* leaves every file under its original name with its original content, and the
\* manifest no longer exists (the tree is the tree from before the lock).
C1_RoundTrip ==
    hist.stage = "unlocked" =>
        /\ last.res = "Ok"
        /\ ~is_locked(fs)
        /\ fs = hist.fs0

\* C2: unlock_folder on a locked folder with a password other than the one it was
\* locked with returns the wrong-password error and leaves the tree as it was (an
\* injected failure of the manifest read returns the I/O error instead, and also
\* leaves the tree as it was).
C2_WrongPasswordChangesNothing ==
    [][(/\ Idle
        /\ last'.op = "unlock_folder"
        /\ Manifest(fs) # None
        /\ last'.pw # LockPw(fs))
       => (/\ fs' = fs
           /\ \/ last'.res = "WrongPassword"
              \/ last'.hit /\ last'.res = "IoError")]_vars

C2_Witness ==
    /\ last.op = "unlock_folder"
    /\ last.res = "WrongPassword"
    /\ Manifest(fs) # None
    /\ last.pw # LockPw(fs)
    /\ Manifest(fs).files # <<>>
    /\ \A r \in Records(fs) : Exists(fs, CipherPath(r))

\* C3: lock_folder on a folder whose manifest exists returns the already-locked
\* error, makes no file-system call and leaves the tree, manifest included, as it was.
C3_DoubleLockChangesNothing ==
    [][(/\ Idle
        /\ last'.op = "lock_folder"
        /\ is_locked(fs))
       => (/\ last'.res = "AlreadyLocked"
           /\ last'.log = <<>>
           /\ fs' = fs)]_vars

C3_Witness ==
    /\ last.op = "lock_folder"
    /\ last.res = "AlreadyLocked"
    /\ Manifest(fs) # None
    /\ Manifest(fs).files # <<>>

\* C4: after a lock with master key M supplied, unlock_folder_with_master_key with
\* M restores all files and removes the manifest; with a master key other than the
\* one that wrapped the recovery key it fails with the authentication error.
C4_RecoveryPath ==
    /\ hist.stage = "recovered" =>
           /\ last.res = "Ok"
           /\ ~is_locked(fs)
           /\ fs = hist.fs0
    /\ (/\ last.op = "recover_folder"
        /\ last.mk # None
        /\ ~last.hit
        /\ Manifest(fs) # None
        /\ Manifest(fs).recovery_key # None
        /\ Manifest(fs).recovery_key.key # last.mk)
       => last.res = "AuthFailed"

\* the records whose ciphertext file has had a byte flipped
Tampered(tree) ==
    {r \in Records(tree) : /\ Exists(tree, CipherPath(r))
                            /\ tree[CipherPath(r)].kind = "blob"
                            /\ ~tree[CipherPath(r)].intact}

Reads(log, p) == {i \in 1..Len(log) : log[i].op = "read" /\ log[i].path = p /\ log[i].ok}

Writes(log, p) == {i \in 1..Len(log) : log[i].op = "write" /\ log[i].path = p}

\* C5: when a ciphertext file named by the manifest has been altered, unlock_folder
\* with the correct password does not succeed, returns the authentication error at
\* the moment it has read that file, and never writes to that file's original name.
C5_TamperDetected ==
    [][(/\ Idle
        /\ last'.op = "unlock_folder"
        /\ Manifest(fs) # None
        /\ last'.pw = LockPw(fs)
        /\ Tampered(fs) # {})
       => (/\ last'.res # "Ok"
           /\ \A r \in Tampered(fs) :
                /\ Writes(last'.log, OrigPath(r)) = {}
                /\ Reads(last'.log, CipherPath(r)) # {} =>
                       /\ last'.res = "AuthFailed"
                       /\ Reads(last'.log, CipherPath(r)) = {Len(last'.log)})]_vars

LockedPath(p) == with_file_name(p, p[2] \o <<LOCKED_EXT>>)

Done(log, i, op, p) == log[i].op = op /\ log[i].path = p /\ log[i].ok

\* C6: in every lock_folder call a write of the manifest is the last file-system
\* call of the operation and comes only after every enumerated file has been read,
\* written as ciphertext and deleted; a successful lock ends with that write.
C6_ManifestWrittenLast ==
    [][(/\ Idle
        /\ last'.op = "lock_folder")
       => LET log == last'.log
          IN  /\ \A i \in Writes(log, meta_path) :
                    /\ i = Len(log)
                    /\ \A p \in WalkFiles(fs) :
                         \E a, b, c \in 1..(i - 1) :
                            /\ a < b /\ b < c
                            /\ Done(log, a, "read", p)
                            /\ Done(log, b, "write", LockedPath(p))
                            /\ Done(log, c, "remove", p)
              /\ last'.res = "Ok" =>
                    /\ log # <<>>
                    /\ Done(log, Len(log), "write", meta_path)]_vars

C6_Witness ==
    /\ last.op = "lock_folder"
    /\ last.res = "Ok"
    /\ Len(last.log) >= 7
    /\ Len(Manifest(fs).files) >= 2

\* the key the manifest's verify token was sealed with: the folder key of that lock
ManifestKey(tree) == Manifest(tree).verify_token.key

\* C7: while the tree is as a successful lock_folder left it, every FileRecord of
\* the manifest resolves to an existing ciphertext file of that lock and every
\* ciphertext file of that lock is named by a FileRecord.
C7_ManifestEnumeratesCiphertext ==
    hist.stage = "locked" =>
        /\ Manifest(fs) # None
        /\ \A r \in Records(fs) :
             /\ Exists(fs, CipherPath(r))
             /\ fs[CipherPath(r)].kind = "blob"
             /\ fs[CipherPath(r)].key = ManifestKey(fs)
        /\ \A p \in DOMAIN fs :
             (fs[p].kind = "blob" /\ fs[p].key = ManifestKey(fs))
                => \E r \in Records(fs) : CipherPath(r) = p

\* C8: a lock_folder, unlock_folder or unlock_folder_with_master_key call that
\* returns an error leaves is_locked with the value it had before the call.
C8_ErrorKeepsLockState ==
    (/\ last.op \in {"lock_folder", "unlock_folder", "recover_folder"}
     /\ last.res # "Ok")
    => is_locked(fs) = last.locked0

\* C9: when lock_folder, unlock_folder or unlock_folder_with_master_key returns, or
\* verify_master_password returns the wrong-password error, the key the call
\* derived or unwrapped has been overwritten with zeros.
C9_KeysWiped ==
    (\/ last.op \in {"lock_folder", "unlock_folder", "recover_folder"}
     \/ last.op = "verify_master_password" /\ last.res = "WrongPassword")
    => last.key \in {None, zeroize_key(last.key)}

FileMetaFields == {"original_name", "locked_name", "relative_path"}

\* C10: the manifests and the saved configuration hold only salts, verify tokens,
\* file records and keys wrapped under another key: no file of the tree and no
\* field of a manifest or of the configuration is a raw key.
C10_NoKeyPersisted ==
    /\ \A p \in DOMAIN fs :
         /\ fs[p].kind # "key"
         /\ fs[p].kind = "meta" =>
              /\ DOMAIN fs[p] = {"kind", "salt", "verify_token", "files", "recovery_key"}
              /\ fs[p].salt.kind = "salt"
              /\ fs[p].verify_token.kind = "blob"
              /\ fs[p].verify_token.pt = VERIFY_CONST
              /\ fs[p].recovery_key.kind \in {"none", "blob"}
              /\ \A i \in 1..Len(fs[p].files) : DOMAIN fs[p].files[i] = FileMetaFields
    /\ config # None =>
         /\ DOMAIN config = {"kind", "folders", "master_salt", "master_verify_token"}
         /\ config.master_salt.kind = "salt"
         /\ config.master_verify_token.kind = "blob"
         /\ config.master_verify_token.pt = VERIFY_CONST

C10_Witness ==
    /\ Manifest(fs) # None
    /\ Manifest(fs).recovery_key # None
    /\ Manifest(fs).recovery_key.pt = ManifestKey(fs)
    /\ Manifest(fs).files # <<>>
    /\ config # None
    /\ master_key # None
    /\ last.op = "lock_folder"

\* the master credential is configured: both persisted fields are present
Configured == master_salt # None /\ master_verify_token # None

\* C11: once a master credential exists, no step (a second setup_master_password
\* included) changes the stored salt or the stored verify token.
C11_MasterCredentialImmutable ==
    [][Configured => /\ master_salt' = master_salt
                     /\ master_verify_token' = master_verify_token]_vars

\* the password whose key sealed the stored verify token under the stored salt
MasterMatches(password) ==
    /\ master_verify_token.kind = "blob"
    /\ master_verify_token.intact
    /\ master_verify_token.pt = VERIFY_CONST
    /\ master_verify_token.key = [kind |-> "key", pw |-> password, salt |-> master_salt]

\* C12: verify_master_password returns the not-configured error when no master
\* credential is stored and the wrong-password error when the password does not
\* match the stored credential, in both cases leaving the session key as it was;
\* a matching password returns success and makes the key derived from it and the
\* stored salt the session key.
C12_VerifyMasterPassword ==
    [][\A password \in MasterPasswords :
         (last'.op = "verify_master_password" /\ verify_master_password(password)) =>
            /\ ~Configured =>
                  /\ last'.res = "NotConfigured"
                  /\ master_key' = master_key
            /\ (Configured /\ ~MasterMatches(password)) =>
                  /\ last'.res = "WrongPassword"
                  /\ master_key' = master_key
            /\ (Configured /\ MasterMatches(password)) =>
                  /\ last'.res = "Ok"
                  /\ master_key' = [kind |-> "key", pw |-> password, salt |-> master_salt]]_vars

\* a wrong password was tried while a session key was held, and the key is still held
C12_Witness ==
    /\ last.op = "verify_master_password"
    /\ last.res = "WrongPassword"
    /\ Configured
    /\ master_key # None
    /\ master_verify_token.key = master_key

\* C15: unlock_folder and unlock_folder_with_master_key return an error when the
\* ciphertext file of some FileRecord is missing, and a call that returns success
\* has deleted the manifest and left every recorded file under its original name.
C15_NoRecordSkipped ==
    [][(/\ Idle
        /\ last'.op \in {"unlock_folder", "recover_folder"}
        /\ Manifest(fs) # None)
       => (/\ (\E r \in Records(fs) : ~Exists(fs, CipherPath(r))) => last'.res # "Ok"
           /\ last'.res = "Ok" =>
                 /\ ~is_locked(fs')
                 /\ \A r \in Records(fs) : Exists(fs', OrigPath(r)))]_vars

\* C16: after a successful lock_folder every file of the tree whose name does not
\* start with '.' has a FileRecord, its content is held as ciphertext of this lock
\* under the record's locked name and no longer as plaintext under its own name;
\* every file whose name starts with '.' is still there unchanged and no FileRecord
\* names it.
C16_LockCoversEveryVisibleFile ==
    [][(/\ Idle
        /\ last'.op = "lock_folder"
        /\ last'.res = "Ok")
       => \A p \in DOMAIN fs :
            IF starts_with_dot(p[2])
            THEN /\ Exists(fs', p)
                 /\ fs'[p] = fs[p]
                 /\ \A r \in Records(fs') : OrigPath(r) # p
            ELSE /\ \E r \in Records(fs') :
                      /\ OrigPath(r) = p
                      /\ Exists(fs', CipherPath(r))
                      /\ fs'[CipherPath(r)].kind = "blob"
                      /\ fs'[CipherPath(r)].key = ManifestKey(fs')
                      /\ fs'[CipherPath(r)].pt = fs[p]
                 /\ Exists(fs', p) => fs'[p] # fs[p]]_vars

\* C20: after an unlock_folder with the right password was stopped by a failure at
\* a file of its loop, the next unlock_folder with that password and no failure
\* returns success, deletes the manifest and leaves the tree as it was before the
\* lock: every file under its original name with its original content.
C20_UnlockResumes ==
    hist.stage = "resumed" =>
        /\ last.res = "Ok"
        /\ ~is_locked(fs)
        /\ fs = hist.fs0

----------------------------------------------------------------------------
(* lock_all: the batch over the watched folders.  disk holds the tree of    *)
(* each directory; a watched path that is not a directory has no tree.      *)

\* lock_all calls of a run
MaxBatches == 2

\* a path the configuration names that is no directory (any more)
NotADirectory == "N"
BatchPaths == Directories \cup {NotADirectory}

NoFault == [at |-> 0, partial |-> FALSE]

TreeOf(d, path) == IF path \in DOMAIN d THEN d[path] ELSE EmptyTree

\* the sequences without repetition over a set of paths
RECURSIVE Arrangements(_)
Arrangements(S) ==
    {<<>>} \cup UNION {{<<x>> \o q : q \in Arrangements(S \ {x})} : x \in S}

\* a batch that goes on with the next folder after a folder failed
RECURSIVE lock_all_loop_keeps_going(_, _, _, _, _, _, _, _, _)
lock_all_loop_keeps_going(d, paths, i, password, mk, call, k, f, ascending) ==
    IF i > Len(paths) THEN [disk |-> d, res |-> "Ok", at |-> 0]
    ELSE LET path == paths[i]
             s == lock_folder(TreeOf(d, path), path, password, mk, <<call, i>>,
                              ascending, IF i = k THEN f ELSE NoFault)
             d1 == IF path \in DOMAIN d THEN [d EXCEPT ![path] = s.fs] ELSE d
             r == lock_all_loop_keeps_going(d1, paths, i + 1, password, mk, call, k, f,
                                            ascending)
         IN  IF is_locked(TreeOf(d, path))
             THEN lock_all_loop_keeps_going(d, paths, i + 1, password, mk, call, k, f,
                                            ascending)
             ELSE IF s.res = "Ok" THEN r
             ELSE [r EXCEPT !.res = s.res, !.at = i]

\* the loop of lock_all from the i-th watched path on; the failure f is injected
\* into the lock of the k-th path.  Result: the trees, "Ok" or the error of the
\* folder that failed, and the position of that folder
RECURSIVE lock_all_loop(_, _, _, _, _, _, _, _, _)
lock_all_loop(d, paths, i, password, mk, call, k, f, ascending) ==
    IF i > Len(paths) THEN [disk |-> d, res |-> "Ok", at |-> 0]
    ELSE LET path == paths[i]
             s == lock_folder(TreeOf(d, path), path, password, mk, <<call, i>>,
                              ascending, IF i = k THEN f ELSE NoFault)
             d1 == IF path \in DOMAIN d THEN [d EXCEPT ![path] = s.fs] ELSE d
         IN  IF is_locked(TreeOf(d, path))
             THEN lock_all_loop(d, paths, i + 1, password, mk, call, k, f, ascending)
             ELSE IF s.res = "Ok"
             THEN lock_all_loop(d1, paths, i + 1, password, mk, call, k, f, ascending)
             ELSE [disk |-> d1, res |-> s.res, at |-> i]

\* AppState::new with a configuration file that names watched paths
InitBatch ==
    /\ disk \in [Directories -> {EmptyTree, [p \in {<<"", <<"a">>>>} |-> Plain(1)]}]
    /\ folders \in Arrangements(BatchPaths)
    /\ config = save(folders, None, None)
    /\ fs = EmptyTree
    /\ rng = 0
    /\ master_salt = None
    /\ master_verify_token = None
    /\ master_key = None
    /\ last = NoCall
    /\ hist = NoHist
    /\ th = <<>>
    /\ mtx = <<>>
    /\ seen = {}

\* commands::lock_all, the master_key and folders guards held as the code holds them
lock_all(password, k, f, ascending) ==
    LET r == lock_all_loop(disk, folders, 1, password, master_key, rng, k, f, ascending)
    IN  /\ Idle
        /\ rng < MaxBatches
        /\ disk' = r.disk
        /\ rng' = rng + 1
        /\ last' = [op |-> "lock_all", pw |-> password, mk |-> master_key,
                    res |-> r.res, key |-> None, log |-> <<>>, hit |-> k # 0,
                    locked0 |-> FALSE, at |-> r.at]
        /\ UNCHANGED <<fs, folders, master_salt, master_verify_token, master_key,
                       config, hist, th, mtx, seen>>

NextBatch ==
    \/ Deliver
    \/ \E password \in LockPasswords, k \in 0..Cardinality(BatchPaths), f \in Faults,
          ascending \in BOOLEAN :
         lock_all(password, k, f, ascending)

SpecBatch == InitBatch /\ [][NextBatch]_vars

\* C13: when lock_all returns an error, the error is that of one watched folder;
\* every folder before it in the list is locked, every folder after it in the list
\* is as it was before the call; when lock_all returns success every watched
\* folder is locked.
C13_BatchFailsFast ==
    [][(/\ Idle
        /\ last'.op = "lock_all")
       => IF last'.res = "Ok"
          THEN \A j \in 1..Len(folders) : is_locked(TreeOf(disk', folders[j]))
          ELSE LET k == last'.at
               IN  /\ k \in 1..Len(folders)
                   /\ \A j \in 1..(k - 1) : is_locked(TreeOf(disk', folders[j]))
                   /\ \A j \in (k + 1)..Len(folders) :
                        TreeOf(disk', folders[j]) = TreeOf(disk, folders[j])]_vars

\* a batch of three failed at its second folder: the first folder was unlocked and
\* is now locked by this call, the third is an unlocked directory holding a file
C13_Witness ==
    /\ last.op = "lock_all"
    /\ last.res # "Ok"
    /\ last.at = 2
    /\ Len(folders) = 3
    /\ is_locked(TreeOf(disk, folders[1]))
    /\ TreeOf(disk, folders[1])[meta_path].salt = generate_salt(<<rng - 1, 1>>)
    /\ folders[3] \in Directories
    /\ ~is_locked(TreeOf(disk, folders[3]))
    /\ TreeOf(disk, folders[3]) # EmptyTree

----------------------------------------------------------------------------
(* The command handlers as threads.  The four fields of AppState sit behind *)
(* four independent Mutexes (commands.rs:9-12); a handler is a sequence of  *)
(* steps, one for each statement that takes a guard, and the handlers of    *)
(* two threads interleave between these steps.  A step that needs a guard   *)
(* another thread holds is not enabled.                                     *)

\* commands a thread runs
MaxCmds == 2

Threads == {1, 2}

Mutexes == {"folders", "master_salt", "master_verify_token", "master_key"}

Free(m) == mtx[m] = 0

\* a thread between two commands; res is what its last command returned
Rest(n, res) ==
    [pc |-> "idle", cmd |-> "none", n |-> n, res |-> res, pw |-> "",
     salt |-> None, token |-> None, key |-> None]

\* the values the guarded fields hold together in the state a step leads to
Observe ==
    [st |-> seen.st \cup {<<master_salt', master_verify_token'>>},
     kf |-> seen.kf \cup {<<master_key', folders'>>}]

At(t, cmd, pc) == th[t].cmd = cmd /\ th[t].pc = pc

Goto(t, pc) == th' = [th EXCEPT ![t].pc = pc]

Returns(t, res) == th' = [th EXCEPT ![t] = Rest(th[t].n + 1, res)]

Begins(t) == th[t].pc = "idle" /\ th[t].n < MaxCmds

\* setup_master_password up to the write of master_salt (commands.rs:124-130);
\* the salt OsRng hands out is new with every call
t_setup_master_password(t, password) ==
    /\ Begins(t)
    /\ IF Len(password) < MIN_MASTER_LEN
       THEN /\ Returns(t, "WeakPassword")
            /\ UNCHANGED master_salt
       ELSE LET salt == generate_salt(<<t, th[t].n>>)
                key == derive_key(password, salt)
                verify_token == create_verify_token(key, <<t, th[t].n>>)
            IN  /\ Free("master_salt")
                /\ master_salt' = salt
                /\ th' = [th EXCEPT ![t] = [@ EXCEPT !.cmd = "setup_master_password",
                                                     !.pc = "token", !.pw = password,
                                                     !.salt = salt, !.key = key,
                                                     !.token = verify_token]]
    /\ UNCHANGED <<master_verify_token, master_key, folders, config, disk, mtx>>
    /\ seen' = Observe
    /\ UNCHANGED <<fs, rng, last, hist>>

\* commands.rs:131
t_setup_token(t) ==
    /\ At(t, "setup_master_password", "token")
    /\ Free("master_verify_token")
    /\ master_verify_token' = th[t].token
    /\ Goto(t, "key")
    /\ UNCHANGED <<master_salt, master_key, folders, config, disk, mtx>>
    /\ seen' = Observe
    /\ UNCHANGED <<fs, rng, last, hist>>

\* commands.rs:132
t_setup_key(t) ==
    /\ At(t, "setup_master_password", "key")
    /\ Free("master_key")
    /\ master_key' = th[t].key
    /\ Goto(t, "save")
    /\ UNCHANGED <<master_salt, master_verify_token, folders, config, disk, mtx>>
    /\ seen' = Observe
    /\ UNCHANGED <<fs, rng, last, hist>>

\* AppState::save takes the folders guard (commands.rs:47)
t_save_folders(t) ==
    /\ th[t].pc = "save"
    /\ Free("folders")
    /\ mtx' = [mtx EXCEPT !["folders"] = t]
    /\ Goto(t, "save_salt")
    /\ UNCHANGED <<master_salt, master_verify_token, master_key, folders, config, disk>>
    /\ seen' = Observe
    /\ UNCHANGED <<fs, rng, last, hist>>

\* then the master_salt guard (commands.rs:48)
t_save_salt(t) ==
    /\ th[t].pc = "save_salt"
    /\ Free("master_salt")
    /\ mtx' = [mtx EXCEPT !["master_salt"] = t]
    /\ Goto(t, "save_token")
    /\ UNCHANGED <<master_salt, master_verify_token, master_key, folders, config, disk>>
    /\ seen' = Observe
    /\ UNCHANGED <<fs, rng, last, hist>>

\* then the master_verify_token guard, writes the file and drops the three guards
\* (commands.rs:49-58); the command that called save returns
t_save_token(t) ==
    /\ th[t].pc = "save_token"
    /\ Free("master_verify_token")
    /\ config' = save(folders, master_salt, master_verify_token)
    /\ mtx' = [mtx EXCEPT !["folders"] = 0, !["master_salt"] = 0]
    /\ Returns(t, "Ok")
    /\ UNCHANGED <<master_salt, master_verify_token, master_key, folders, disk>>
    /\ seen' = Observe
    /\ UNCHANGED <<fs, rng, last, hist>>

\* verify_master_password: the read of master_salt (commands.rs:139)
t_verify_master_password(t, password) ==
    /\ Begins(t)
    /\ Free("master_salt")
    /\ th' = [th EXCEPT ![t] = [@ EXCEPT !.cmd = "verify_master_password",
                                         !.pc = "token", !.pw = password,
                                         !.salt = master_salt]]
    /\ UNCHANGED <<master_salt, master_verify_token, master_key, folders, config, disk, mtx>>
    /\ seen' = Observe
    /\ UNCHANGED <<fs, rng, last, hist>>

\* the read of master_verify_token and the check (commands.rs:140-147)
t_verify_token(t) ==
    LET salt_opt == th[t].salt
        token_opt == master_verify_token
        key == derive_key(th[t].pw, salt_opt)
    IN  /\ At(t, "verify_master_password", "token")
        /\ Free("master_verify_token")
        /\ IF salt_opt = None \/ token_opt = None THEN Returns(t, "NotConfigured")
           ELSE IF ~verify_password(key, token_opt) THEN Returns(t, "WrongPassword")
           ELSE th' = [th EXCEPT ![t] = [@ EXCEPT !.pc = "key", !.token = token_opt,
                                                  !.key = key]]
        /\ UNCHANGED <<master_salt, master_verify_token, master_key, folders, config,
                       disk, mtx>>
        /\ seen' = Observe
        /\ UNCHANGED <<fs, rng, last, hist>>

\* commands.rs:148
t_verify_key(t) ==
    /\ At(t, "verify_master_password", "key")
    /\ Free("master_key")
    /\ master_key' = th[t].key
    /\ Returns(t, "Ok")
    /\ UNCHANGED <<master_salt, master_verify_token, folders, config, disk, mtx>>
    /\ seen' = Observe
    /\ UNCHANGED <<fs, rng, last, hist>>

\* lock_all: the clone of master_key (commands.rs:108)
t_lock_all(t, password) ==
    /\ Begins(t)
    /\ Free("master_key")
    /\ th' = [th EXCEPT ![t] = [@ EXCEPT !.cmd = "lock_all", !.pc = "folders",
                                         !.pw = password, !.key = master_key]]
    /\ UNCHANGED <<master_salt, master_verify_token, master_key, folders, config, disk, mtx>>
    /\ seen' = Observe
    /\ UNCHANGED <<fs, rng, last, hist>>

\* the folders guard and the loop under it (commands.rs:109-119)
t_lock_all_folders(t) ==
    LET r == lock_all_loop(disk, folders, 1, th[t].pw, th[t].key, <<t, th[t].n>>, 0,
                           NoFault, TRUE)
    IN  /\ At(t, "lock_all", "folders")
        /\ Free("folders")
        /\ disk' = r.disk
        /\ Returns(t, r.res)
        /\ UNCHANGED <<master_salt, master_verify_token, master_key, folders, config, mtx>>
        /\ seen' = Observe
        /\ UNCHANGED <<fs, rng, last, hist>>

\* add_folder up to drop(folders) (commands.rs:74-78)
t_add_folder(t, path) ==
    /\ Begins(t)
    /\ Free("folders")
    /\ IF Contains(folders, path)
       THEN Returns(t, "AlreadyInList") /\ UNCHANGED folders
       ELSE IF ~is_dir(path)
       THEN Returns(t, "NotDir") /\ UNCHANGED folders
       ELSE /\ folders' = Append(folders, path)
            /\ th' = [th EXCEPT ![t] = [@ EXCEPT !.cmd = "add_folder", !.pc = "save"]]
    /\ UNCHANGED <<master_salt, master_verify_token, master_key, config, disk, mtx>>
    /\ seen' = Observe
    /\ UNCHANGED <<fs, rng, last, hist>>

\* remove_folder up to drop(folders) (commands.rs:88-90)
t_remove_folder(t, path) ==
    /\ Begins(t)
    /\ Free("folders")
    /\ folders' = Retain(folders, path)
    /\ th' = [th EXCEPT ![t] = [@ EXCEPT !.cmd = "remove_folder", !.pc = "save"]]
    /\ UNCHANGED <<master_salt, master_verify_token, master_key, config, disk, mtx>>
    /\ seen' = Observe
    /\ UNCHANGED <<fs, rng, last, hist>>

\* a credential an earlier session set up and saved
SavedSalt == generate_salt(<<0, 0>>)
SavedToken == create_verify_token(derive_key("mpw1", SavedSalt), <<0, 0>>)

\* AppState::new: no configuration file, or one with a folder and a credential
InitThreads ==
    /\ \/ /\ folders = <<>>
          /\ master_salt = None
          /\ master_verify_token = None
          /\ config = None
       \/ /\ folders = <<FolderPath>>
          /\ master_salt = SavedSalt
          /\ master_verify_token = SavedToken
          /\ config = save(folders, master_salt, master_verify_token)
    /\ master_key = None
    /\ disk = [d \in Directories |-> [p \in {<<"", <<"a">>>>} |-> Plain(1)]]
    /\ th = [t \in Threads |-> Rest(0, "")]
    /\ mtx = [m \in Mutexes |-> 0]
    /\ seen = [st |-> {<<master_salt, master_verify_token>>},
               kf |-> {<<master_key, folders>>}]
    /\ fs = EmptyTree
    /\ rng = 0
    /\ last = NoCall
    /\ hist = NoHist

NextThreads ==
    \E t \in Threads :
      \/ \E password \in MasterPasswords : t_setup_master_password(t, password)
      \/ t_setup_token(t)
      \/ t_setup_key(t)
      \/ t_save_folders(t)
      \/ t_save_salt(t)
      \/ t_save_token(t)
      \/ \E password \in MasterPasswords : t_verify_master_password(t, password)
      \/ t_verify_token(t)
      \/ t_verify_key(t)
      \/ \E password \in LockPasswords : t_lock_all(t, password)
      \/ t_lock_all_folders(t)
      \/ \E path \in BatchPaths : t_add_folder(t, path)
      \/ \E path \in Paths : t_remove_folder(t, path)

SpecThreads == InitThreads /\ [][NextThreads]_vars

\* C14: the two guarded fields a command uses were held together at one moment:
\* when verify_master_password reads the verify token, the salt it read before and
\* this token are a pair the two fields have held together; when lock_all takes the
\* folder list, the session key it cloned before and this list are such a pair.
C14_ConsistentSnapshot ==
    [][\A t \in Threads :
         /\ (At(t, "verify_master_password", "token") /\ th'[t].pc # "token")
               => <<th[t].salt, master_verify_token>> \in seen.st
         /\ (At(t, "lock_all", "folders") /\ th'[t].pc # "folders")
               => <<th[t].key, folders>> \in seen.kf]_vars

\* the master state is coherent: salt and verify token are both absent, or both
\* present and of the same setup, and a session key is the key of that credential
Coherent ==
    /\ (master_salt = None) = (master_verify_token = None)
    /\ master_salt # None =>
         /\ master_verify_token.key.salt = master_salt
         /\ master_key # None => master_verify_token.key = master_key

\* C19: whenever no command is in progress the master state is coherent.
C19_MasterStateCoherent ==
    (\A t \in Threads : th[t].pc = "idle") => Coherent

----------------------------------------------------------------------------
(* folder::lock_folder and folder::unlock_folder as threads on the one      *)
(* directory F, one step for each file-system call.  commands::lock_folder  *)
(* holds the master_key guard for the whole call (commands.rs:97-98),       *)
(* lock_all holds the folders guard for its loop (commands.rs:109-119) and  *)
(* commands::unlock_folder takes no guard (commands.rs:102-104).            *)

\* commands a thread runs on the folder
MaxOps == 2

LockCmds == {"lock_folder", "lock_all"}

\* a thread between two commands
Away(n, res) ==
    [pc |-> "idle", cmd |-> "none", n |-> n, res |-> res, pw |-> "", mk |-> None,
     salt |-> None, key |-> None, files |-> <<>>, i |-> 0, buf |-> None,
     metas |-> <<>>, rival |-> FALSE, saw |-> "none"]

\* the thread s is in the loop over the files of lock_folder (folder.rs:60-70)
LockTransforms(s) == s.cmd \in LockCmds /\ s.pc \in {"read", "write", "remove"}

\* the thread s is in the loop of decrypt_files (folder.rs:79-87)
UnlockTransforms(s) ==
    s.cmd = "unlock_folder" /\ s.pc \in {"exists", "read", "write", "remove"}

\* the thread is past the guard of lock_folder and has not written the manifest
LockInProgress(t) ==
    th[t].cmd \in LockCmds /\ th[t].pc \in {"walk", "read", "write", "remove", "manifest"}

\* the thread has read the manifest and has not deleted it
UnlockInProgress(t) ==
    th[t].cmd = "unlock_folder" /\ th[t].pc \in {"exists", "read", "write", "remove", "unmeta"}

\* the guards a returning command drops
Dropped(t) == [m \in Mutexes |-> IF mtx[m] = t THEN 0 ELSE mtx[m]]

\* the command of thread t returns res
Back(t, res) ==
    /\ th' = [th EXCEPT ![t] = Away(th[t].n + 1, res)]
    /\ mtx' = Dropped(t)

\* the guard of thread t refuses with res; saw records the kind of command that
\* another thread had in progress at that moment
Refused(t, res) ==
    LET saw == IF \E u \in Threads \ {t} : LockInProgress(u) THEN "lock"
               ELSE IF \E u \in Threads \ {t} : UnlockInProgress(u) THEN "unlock"
               ELSE "none"
    IN  /\ th' = [th EXCEPT ![t] = [Away(th[t].n + 1, res) EXCEPT !.saw = saw]]
        /\ mtx' = Dropped(t)

\* thread t goes on as the record r; every thread that is in progress with a
\* command of the same kind, and t itself, is marked as having had a rival
Enter(t, r, others) ==
    th' = [u \in Threads |->
             IF u = t THEN [r EXCEPT !.rival = others # {}]
             ELSE IF u \in others THEN [th[u] EXCEPT !.rival = TRUE]
             ELSE th[u]]

Starts(t) == th[t].pc = "idle" /\ th[t].n < MaxOps

\* commands::lock_folder takes the master_key guard (commands.rs:97)
r_lock_folder(t, password) ==
    /\ Starts(t)
    /\ Free("master_key")
    /\ mtx' = [mtx EXCEPT !["master_key"] = t]
    /\ th' = [th EXCEPT ![t] = [@ EXCEPT !.cmd = "lock_folder", !.pc = "check",
                                         !.pw = password, !.mk = master_key]]
    /\ UNCHANGED fs

\* lock_all clones the session key (commands.rs:108)
r_lock_all(t, password) ==
    /\ Starts(t)
    /\ Free("master_key")
    /\ th' = [th EXCEPT ![t] = [@ EXCEPT !.cmd = "lock_all", !.pc = "folders",
                                         !.pw = password, !.mk = master_key]]
    /\ UNCHANGED <<fs, mtx>>

\* lock_all takes the folders guard and asks is_locked of the watched folder
\* (commands.rs:109-112); a locked folder is skipped and the batch is over
r_lock_all_folders(t) ==
    /\ At(t, "lock_all", "folders")
    /\ Free("folders")
    /\ IF ~Contains(folders, FolderPath) \/ is_locked(fs)
       THEN Back(t, "Ok")
       ELSE /\ mtx' = [mtx EXCEPT !["folders"] = t]
            /\ Goto(t, "check")
    /\ UNCHANGED fs

\* a guard that also refuses while another thread is transforming the folder
r_check_exclusive(t) ==
    /\ th[t].cmd \in LockCmds
    /\ th[t].pc = "check"
    /\ IF already_locked(fs) THEN Refused(t, "AlreadyLocked")
       ELSE IF \E u \in Threads \ {t} : LockInProgress(u) \/ UnlockInProgress(u)
       THEN Back(t, "Busy")
       ELSE /\ Enter(t, [th[t] EXCEPT !.pc = "walk"], {})
            /\ UNCHANGED mtx
    /\ UNCHANGED fs

\* the guard of folder::lock_folder (folder.rs:36-42)
r_check(t) ==
    /\ th[t].cmd \in LockCmds
    /\ th[t].pc = "check"
    /\ IF already_locked(fs) THEN Refused(t, "AlreadyLocked")
       ELSE /\ Enter(t, [th[t] EXCEPT !.pc = "walk"],
                     {u \in Threads \ {t} : LockInProgress(u)})
            /\ UNCHANGED mtx
    /\ UNCHANGED fs

\* salt, key and the enumeration of the files (folder.rs:43-58)
r_walk(t, ascending) ==
    LET salt == generate_salt(<<t, th[t].n>>)
        files == Listing(WalkFiles(fs), ascending)
    IN  /\ th[t].cmd \in LockCmds
        /\ th[t].pc = "walk"
        /\ th' = [th EXCEPT ![t] = [@ EXCEPT !.salt = salt,
                                             !.key = derive_key(th[t].pw, salt),
                                             !.files = files, !.i = 1,
                                             !.pc = IF files = <<>> THEN "manifest"
                                                    ELSE "read"]]
        /\ UNCHANGED <<fs, mtx>>

\* fs::read of the file (folder.rs:64)
r_lock_read(t) ==
    LET file_path == th[t].files[th[t].i]
    IN  /\ th[t].cmd \in LockCmds
        /\ th[t].pc = "read"
        /\ IF ~Exists(fs, file_path) THEN Back(t, "IoError")
           ELSE /\ th' = [th EXCEPT ![t] = [@ EXCEPT !.buf = fs[file_path], !.pc = "write"]]
                /\ UNCHANGED mtx
        /\ UNCHANGED fs

\* encrypt and fs::write of the ciphertext (folder.rs:65-67)
r_lock_write(t) ==
    LET file_path == th[t].files[th[t].i]
        locked_path == with_file_name(file_path, file_path[2] \o <<LOCKED_EXT>>)
        encrypted == encrypt(th[t].key, th[t].buf, <<t, th[t].n, th[t].i>>)
    IN  /\ th[t].cmd \in LockCmds
        /\ th[t].pc = "write"
        /\ fs' = Put(fs, locked_path, encrypted)
        /\ th' = [th EXCEPT ![t] = [@ EXCEPT !.buf = None, !.pc = "remove"]]
        /\ UNCHANGED mtx

\* fs::remove_file of the plaintext and the push of the FileMeta (folder.rs:68-69)
r_lock_remove(t) ==
    LET file_path == th[t].files[th[t].i]
        file_meta == [original_name |-> file_path[2],
                      locked_name |-> file_path[2] \o <<LOCKED_EXT>>,
                      relative_path |-> file_path]
    IN  /\ th[t].cmd \in LockCmds
        /\ th[t].pc = "remove"
        /\ IF ~Exists(fs, file_path) THEN Back(t, "IoError") /\ UNCHANGED fs
           ELSE /\ fs' = Del(fs, file_path)
                /\ th' = [th EXCEPT ![t] = [@ EXCEPT !.metas = Append(@, file_meta),
                                                     !.i = @ + 1,
                                                     !.pc = IF th[t].i = Len(th[t].files)
                                                            THEN "manifest" ELSE "read"]]
                /\ UNCHANGED mtx

\* fs::write of the manifest; lock_folder returns (folder.rs:71-75)
r_manifest(t) ==
    LET key == th[t].key
        call == <<t, th[t].n>>
        meta == [kind |-> "meta", salt |-> th[t].salt,
                 verify_token |-> create_verify_token(key, <<call, 0>>),
                 files |-> th[t].metas,
                 recovery_key |-> IF th[t].mk = None THEN None
                                  ELSE wrap_key(th[t].mk, key, <<call, 1>>)]
    IN  /\ th[t].cmd \in LockCmds
        /\ th[t].pc = "manifest"
        /\ fs' = Put(fs, meta_path, meta)
        /\ Back(t, "Ok")

\* an unlock that deletes the manifest before it restores the files
r_unlock_folder_deletes_first(t, password) ==
    LET meta == fs[meta_path]
        key == derive_key(password, meta.salt)
        r == [th[t] EXCEPT !.cmd = "unlock_folder", !.pw = password, !.key = key,
                           !.files = meta.files, !.i = 1,
                           !.pc = IF meta.files = <<>> THEN "unmeta" ELSE "exists"]
    IN  /\ Starts(t)
        /\ IF ~Exists(fs, meta_path) THEN Refused(t, "NotLocked") /\ UNCHANGED fs
           ELSE IF meta.kind # "meta" THEN Back(t, "InvalidMetadata") /\ UNCHANGED fs
           ELSE IF ~verify_password(key, meta.verify_token)
           THEN Back(t, "WrongPassword") /\ UNCHANGED fs
           ELSE /\ Enter(t, r, {u \in Threads \ {t} : UnlockInProgress(u)})
                /\ fs' = Del(fs, meta_path)
                /\ UNCHANGED mtx

\* commands::unlock_folder: read_meta and the password check (folder.rs:103-109)
r_unlock_folder(t, password) ==
    LET meta == fs[meta_path]
        key == derive_key(password, meta.salt)
        r == [th[t] EXCEPT !.cmd = "unlock_folder", !.pw = password, !.key = key,
                           !.files = meta.files, !.i = 1,
                           !.pc = IF meta.files = <<>> THEN "unmeta" ELSE "exists"]
    IN  /\ Starts(t)
        /\ IF ~Exists(fs, meta_path) THEN Refused(t, "NotLocked")
           ELSE IF meta.kind # "meta" THEN Back(t, "InvalidMetadata")
           ELSE IF ~verify_password(key, meta.verify_token) THEN Back(t, "WrongPassword")
           ELSE /\ Enter(t, r, {u \in Threads \ {t} : UnlockInProgress(u)})
                /\ UNCHANGED mtx
        /\ UNCHANGED fs

\* the next record of decrypt_files, or the end of the loop
Onward(t) ==
    [th[t] EXCEPT !.i = @ + 1, !.buf = None,
                  !.pc = IF th[t].i = Len(th[t].files) THEN "unmeta" ELSE "exists"]

\* locked_path.exists() (folder.rs:81)
r_exists(t) ==
    /\ At(t, "unlock_folder", "exists")
    /\ IF Exists(fs, CipherPath(th[t].files[th[t].i]))
       THEN Goto(t, "read")
       ELSE th' = [th EXCEPT ![t] = Onward(t)]
    /\ UNCHANGED <<fs, mtx>>

\* fs::read of the ciphertext and crypto::decrypt (folder.rs:82-83)
r_unlock_read(t) ==
    LET locked_path == CipherPath(th[t].files[th[t].i])
        d == decrypt(th[t].key, fs[locked_path])
    IN  /\ At(t, "unlock_folder", "read")
        /\ IF ~Exists(fs, locked_path) THEN Back(t, "IoError")
           ELSE IF ~d.ok THEN Back(t, d.val)
           ELSE /\ th' = [th EXCEPT ![t] = [@ EXCEPT !.buf = d.val, !.pc = "write"]]
                /\ UNCHANGED mtx
        /\ UNCHANGED fs

\* fs::write under the original name (folder.rs:84-85)
r_unlock_write(t) ==
    /\ At(t, "unlock_folder", "write")
    /\ fs' = Put(fs, OrigPath(th[t].files[th[t].i]), th[t].buf)
    /\ Goto(t, "remove")
    /\ UNCHANGED mtx

\* fs::remove_file of the ciphertext (folder.rs:86)
r_unlock_remove(t) ==
    LET locked_path == CipherPath(th[t].files[th[t].i])
    IN  /\ At(t, "unlock_folder", "remove")
        /\ IF ~Exists(fs, locked_path) THEN Back(t, "IoError") /\ UNCHANGED fs
           ELSE /\ fs' = Del(fs, locked_path)
                /\ th' = [th EXCEPT ![t] = Onward(t)]
                /\ UNCHANGED mtx

\* fs::remove_file of the manifest; unlock_folder returns (folder.rs:111-113)
r_unlock_manifest(t) ==
    /\ At(t, "unlock_folder", "unmeta")
    /\ IF ~Exists(fs, meta_path) THEN Back(t, "IoError") /\ UNCHANGED fs
       ELSE fs' = Del(fs, meta_path) /\ Back(t, "Ok")

\* F is watched, unlocked and holds the file a
InitRace ==
    /\ fs = [p \in {<<"", <<"a">>>>} |-> Plain(1)]
    /\ folders = <<FolderPath>>
    /\ th = [t \in Threads |-> Away(0, "")]
    /\ mtx = [m \in Mutexes |-> 0]
    /\ master_salt = None
    /\ master_verify_token = None
    /\ master_key = None
    /\ config = save(folders, None, None)
    /\ rng = 0
    /\ last = NoCall
    /\ hist = NoHist
    /\ disk = <<>>
    /\ seen = {}

Elsewhere ==
    <<rng, folders, master_salt, master_verify_token, master_key, config, last, hist,
      disk, seen>>

NextRace ==
    \E t \in Threads :
      \/ \E password \in LockPasswords : r_lock_folder(t, password) /\ UNCHANGED Elsewhere
      \/ \E password \in LockPasswords : r_lock_all(t, password) /\ UNCHANGED Elsewhere
      \/ r_lock_all_folders(t) /\ UNCHANGED Elsewhere
      \/ r_check(t) /\ UNCHANGED Elsewhere
      \/ \E ascending \in BOOLEAN : r_walk(t, ascending) /\ UNCHANGED Elsewhere
      \/ r_lock_read(t) /\ UNCHANGED Elsewhere
      \/ r_lock_write(t) /\ UNCHANGED Elsewhere
      \/ r_lock_remove(t) /\ UNCHANGED Elsewhere
      \/ r_manifest(t) /\ UNCHANGED Elsewhere
      \/ \E password \in LockPasswords : r_unlock_folder(t, password) /\ UNCHANGED Elsewhere
      \/ r_exists(t) /\ UNCHANGED Elsewhere
      \/ r_unlock_read(t) /\ UNCHANGED Elsewhere
      \/ r_unlock_write(t) /\ UNCHANGED Elsewhere
      \/ r_unlock_remove(t) /\ UNCHANGED Elsewhere
      \/ r_unlock_manifest(t) /\ UNCHANGED Elsewhere

SpecRace == InitRace /\ [][NextRace]_vars

\* thread t takes the step of the guard of folder::lock_folder
LockGuard(t) == th[t].pc = "check" /\ th'[t] # th[t]

\* thread t takes the step of read_meta in unlock_folder
UnlockGuard(t) == th[t].pc = "idle" /\ th'[t] # th[t] /\ th'[t].cmd \notin LockCmds

\* C17: nothing but the manifest holds a lock back: whenever the manifest is
\* absent the guard of lock_folder lets the caller through, whatever the other
\* threads are doing in the folder, so that two locks run the loop over the
\* same files at the same time.
C17_NoMutualExclusion ==
    [][\A t \in Threads :
         (LockGuard(t) /\ ~already_locked(fs)) => LockInProgress(t)']_vars

\* C17: two locks of F are in the loop over the files, both at the file a
C17_Witness ==
    \E t \in Threads : \E u \in Threads \ {t} :
       /\ th[t].cmd = "lock_all" /\ LockTransforms(th[t])
       /\ th[u].cmd = "lock_folder" /\ LockTransforms(th[u])
       /\ th[t].files[th[t].i] = th[u].files[th[u].i]

\* C18 as stated: a lock and an unlock are never both in their loops over the
\* files; an unlock that reaches its guard while a lock is in progress returns
\* the not-locked error and a lock that reaches its guard while an unlock is in
\* progress returns the already-locked error, neither touching a file.
C18_LockUnlockExclusive ==
    [][\A t \in Threads : \A u \in Threads \ {t} :
         /\ ~(LockTransforms(th'[t]) /\ UnlockTransforms(th'[u]))
         /\ (UnlockGuard(t) /\ LockInProgress(u))
               => /\ th'[t].pc = "idle" /\ th'[t].res = "NotLocked"
                  /\ fs' = fs
         /\ (LockGuard(t) /\ UnlockInProgress(u))
               => /\ th'[t].pc = "idle" /\ th'[t].res = "AlreadyLocked"
                  /\ fs' = fs]_vars

\* C18 amended: the same, for a lock that no other lock of the folder has
\* overlapped and an unlock that no other unlock of the folder has overlapped.
\* An unlock that reaches its guard while such a lock is between its guard and
\* its write of the manifest returns the not-locked error; a lock that reaches
\* its guard while such an unlock is between its read of the manifest and its
\* removal returns the already-locked error; neither touches a file, and such a
\* lock and such an unlock are never both in their loops over the files.
C18_ExclusiveWithoutRival ==
    [][\A t \in Threads : \A u \in Threads \ {t} :
         /\ (LockTransforms(th'[t]) /\ UnlockTransforms(th'[u]))
               => (th'[t].rival \/ th'[u].rival)
         /\ (UnlockGuard(t) /\ LockInProgress(u) /\ ~th[u].rival)
               => /\ th'[t].pc = "idle" /\ th'[t].res = "NotLocked"
                  /\ fs' = fs
         /\ (LockGuard(t) /\ UnlockInProgress(u) /\ ~th[u].rival)
               => /\ th'[t].pc = "idle" /\ th'[t].res = "AlreadyLocked"
                  /\ fs' = fs]_vars

\* C18: an unlock was refused as not locked while the only lock of the folder
\* is in its loop over the files
C18_Witness ==
    \E t \in Threads : \E u \in Threads \ {t} :
       /\ th[t].pc = "idle" /\ th[t].res = "NotLocked" /\ th[t].saw = "lock"
       /\ LockTransforms(th[u]) /\ ~th[u].rival

----------------------------------------------------------------------------
(* The guards of AppState: every command of commands.rs that takes a Mutex, *)
(* as a thread, one step for each acquisition and one for each call made    *)
(* while a guard is held.  A statement that takes a guard, reads or writes  *)
(* the field and drops the guard at its end is one step enabled when the    *)
(* Mutex is free.  std::sync::Mutex is not reentrant: a thread that asks    *)
(* for a Mutex it holds waits like any other.                               *)

\* commands started, over all callers
MaxCalls == 2

Callers == {1, 2, 3}

RECURSIVE Calls(_)
\* the commands the callers of S have started
Calls(S) ==
    IF S = {} THEN 0
    ELSE LET t == CHOOSE x \in S : TRUE
         IN  th[t].n + (IF th[t].pc = "idle" THEN 0 ELSE 1) + Calls(S \ {t})

\* a caller between two commands
Calm(n, res) ==
    [pc |-> "idle", cmd |-> "none", n |-> n, res |-> res, pw |-> "", path |-> "",
     salt |-> None, token |-> None, key |-> None]

Invoked(t) == th[t].pc = "idle" /\ Calls(Callers) < MaxCalls

\* caller t takes the guard of m
Take(t, m) == Free(m) /\ mtx' = [mtx EXCEPT ![m] = t]

\* the command of caller t returns res
Ends(t, res) == th' = [th EXCEPT ![t] = Calm(th[t].n + 1, res)]

\* the command of caller t goes on as cmd at pc
Into(t, cmd, pc) == th' = [th EXCEPT ![t] = [@ EXCEPT !.cmd = cmd, !.pc = pc]]

Fields == <<folders, master_salt, master_verify_token, master_key, config, disk>>

\* get_folders takes the folders guard (commands.rs:63)
g_get_folders(t) ==
    /\ Invoked(t)
    /\ Take(t, "folders")
    /\ Into(t, "get_folders", "listing")
    /\ UNCHANGED Fields

\* the file-system calls for every folder; the guard drops (commands.rs:64-70)
g_get_folders_returns(t) ==
    /\ At(t, "get_folders", "listing")
    /\ mtx' = Dropped(t)
    /\ Ends(t, "Ok")
    /\ UNCHANGED Fields

\* add_folder takes the folders guard (commands.rs:74)
g_add_folder(t, path) ==
    /\ Invoked(t)
    /\ Take(t, "folders")
    /\ th' = [th EXCEPT ![t] = [@ EXCEPT !.cmd = "add_folder", !.pc = "push",
                                         !.path = path]]
    /\ UNCHANGED Fields

\* an add_folder that calls save with the folders guard still held
g_add_folder_push_no_drop(t) ==
    /\ At(t, "add_folder", "push")
    /\ IF Contains(folders, th[t].path)
       THEN Ends(t, "AlreadyInList") /\ mtx' = Dropped(t) /\ UNCHANGED folders
       ELSE IF ~is_dir(th[t].path)
       THEN Ends(t, "NotDir") /\ mtx' = Dropped(t) /\ UNCHANGED folders
       ELSE /\ folders' = Append(folders, th[t].path)
            /\ Goto(t, "save")
            /\ UNCHANGED mtx
    /\ UNCHANGED <<master_salt, master_verify_token, master_key, config, disk>>

\* contains, is_dir, push and drop(folders) (commands.rs:75-78)
g_add_folder_push(t) ==
    /\ At(t, "add_folder", "push")
    /\ IF Contains(folders, th[t].path)
       THEN Ends(t, "AlreadyInList") /\ UNCHANGED folders
       ELSE IF ~is_dir(th[t].path)
       THEN Ends(t, "NotDir") /\ UNCHANGED folders
       ELSE /\ folders' = Append(folders, th[t].path)
            /\ Goto(t, "save")
    /\ mtx' = Dropped(t)
    /\ UNCHANGED <<master_salt, master_verify_token, master_key, config, disk>>

\* remove_folder up to drop(folders) (commands.rs:88-90)
g_remove_folder(t, path) ==
    /\ Invoked(t)
    /\ Free("folders")
    /\ folders' = Retain(folders, path)
    /\ th' = [th EXCEPT ![t] = [@ EXCEPT !.cmd = "remove_folder", !.pc = "save",
                                         !.path = path]]
    /\ UNCHANGED <<master_salt, master_verify_token, master_key, config, disk, mtx>>

\* AppState::save takes the folders guard (commands.rs:47)
g_save_folders(t) ==
    /\ th[t].pc = "save"
    /\ Take(t, "folders")
    /\ Goto(t, "save_salt")
    /\ UNCHANGED Fields

\* then the master_salt guard (commands.rs:48)
g_save_salt(t) ==
    /\ th[t].pc = "save_salt"
    /\ Take(t, "master_salt")
    /\ Goto(t, "save_token")
    /\ UNCHANGED Fields

\* then the master_verify_token guard (commands.rs:49)
g_save_token(t) ==
    /\ th[t].pc = "save_token"
    /\ Take(t, "master_verify_token")
    /\ Goto(t, "save_write")
    /\ UNCHANGED Fields

\* fs::write of the configuration; the three guards drop and the command that
\* called save returns (commands.rs:50-58)
g_save_write(t) ==
    /\ th[t].pc = "save_write"
    /\ config' = save(folders, master_salt, master_verify_token)
    /\ mtx' = Dropped(t)
    /\ Ends(t, "Ok")
    /\ UNCHANGED <<folders, master_salt, master_verify_token, master_key, disk>>

\* commands::lock_folder takes the master_key guard (commands.rs:97)
g_lock_folder(t, path, password) ==
    /\ Invoked(t)
    /\ Take(t, "master_key")
    /\ th' = [th EXCEPT ![t] = [@ EXCEPT !.cmd = "lock_folder", !.pc = "locking",
                                         !.path = path, !.pw = password]]
    /\ UNCHANGED Fields

\* folder::lock_folder under the guard (commands.rs:98)
g_lock_folder_returns(t, ascending) ==
    /\ At(t, "lock_folder", "locking")
    /\ LET path == th[t].path
           s == lock_folder(TreeOf(disk, path), path, th[t].pw, master_key,
                            <<<<t, th[t].n>>, 0>>, ascending, NoFault)
       IN  /\ disk' = IF path \in DOMAIN disk THEN [disk EXCEPT ![path] = s.fs]
                      ELSE disk
           /\ Ends(t, s.res)
    /\ mtx' = Dropped(t)
    /\ UNCHANGED <<folders, master_salt, master_verify_token, master_key, config>>

\* lock_all: the clone of master_key (commands.rs:108)
g_lock_all(t, password) ==
    /\ Invoked(t)
    /\ Free("master_key")
    /\ th' = [th EXCEPT ![t] = [@ EXCEPT !.cmd = "lock_all", !.pc = "folders",
                                         !.pw = password, !.key = master_key]]
    /\ UNCHANGED <<mtx, Fields>>

\* the folders guard (commands.rs:109)
g_lock_all_folders(t) ==
    /\ At(t, "lock_all", "folders")
    /\ Take(t, "folders")
    /\ Goto(t, "loop")
    /\ UNCHANGED Fields

\* the loop under the guard (commands.rs:110-119)
g_lock_all_returns(t, ascending) ==
    /\ At(t, "lock_all", "loop")
    /\ LET r == lock_all_loop(disk, folders, 1, th[t].pw, th[t].key, <<t, th[t].n>>,
                              0, NoFault, ascending)
       IN  /\ disk' = r.disk
           /\ Ends(t, r.res)
    /\ mtx' = Dropped(t)
    /\ UNCHANGED <<folders, master_salt, master_verify_token, master_key, config>>

\* setup_master_password up to the write of master_salt (commands.rs:124-130)
g_setup_master_password(t, password) ==
    /\ Invoked(t)
    /\ IF Len(password) < MIN_MASTER_LEN
       THEN /\ Ends(t, "WeakPassword")
            /\ UNCHANGED master_salt
       ELSE LET salt == generate_salt(<<t, th[t].n>>)
                key == derive_key(password, salt)
                verify_token == create_verify_token(key, <<t, th[t].n>>)
            IN  /\ Free("master_salt")
                /\ master_salt' = salt
                /\ th' = [th EXCEPT ![t] = [@ EXCEPT !.cmd = "setup_master_password",
                                                     !.pc = "token", !.pw = password,
                                                     !.salt = salt, !.key = key,
                                                     !.token = verify_token]]
    /\ UNCHANGED <<master_verify_token, master_key, folders, config, disk, mtx>>

\* commands.rs:131
g_setup_token(t) ==
    /\ At(t, "setup_master_password", "token")
    /\ Free("master_verify_token")
    /\ master_verify_token' = th[t].token
    /\ Goto(t, "key")
    /\ UNCHANGED <<master_salt, master_key, folders, config, disk, mtx>>

\* commands.rs:132
g_setup_key(t) ==
    /\ At(t, "setup_master_password", "key")
    /\ Free("master_key")
    /\ master_key' = th[t].key
    /\ Goto(t, "save")
    /\ UNCHANGED <<master_salt, master_verify_token, folders, config, disk, mtx>>

\* verify_master_password: the read of master_salt (commands.rs:139)
g_verify_master_password(t, password) ==
    /\ Invoked(t)
    /\ Free("master_salt")
    /\ th' = [th EXCEPT ![t] = [@ EXCEPT !.cmd = "verify_master_password",
                                         !.pc = "token", !.pw = password,
                                         !.salt = master_salt]]
    /\ UNCHANGED <<mtx, Fields>>

\* the read of master_verify_token and the check (commands.rs:140-147)
g_verify_token(t) ==
    LET salt_opt == th[t].salt
        token_opt == master_verify_token
        key == derive_key(th[t].pw, salt_opt)
    IN  /\ At(t, "verify_master_password", "token")
        /\ Free("master_verify_token")
        /\ IF salt_opt = None \/ token_opt = None THEN Ends(t, "NotConfigured")
           ELSE IF ~verify_password(key, token_opt) THEN Ends(t, "WrongPassword")
           ELSE th' = [th EXCEPT ![t] = [@ EXCEPT !.pc = "key", !.token = token_opt,
                                                  !.key = key]]
        /\ UNCHANGED <<mtx, Fields>>

\* commands.rs:148
g_verify_key(t) ==
    /\ At(t, "verify_master_password", "key")
    /\ Free("master_key")
    /\ master_key' = th[t].key
    /\ Ends(t, "Ok")
    /\ UNCHANGED <<master_salt, master_verify_token, folders, config, disk, mtx>>

\* has_master_password (commands.rs:153-155)
g_has_master_password(t) ==
    /\ Invoked(t)
    /\ Free("master_salt")
    /\ Ends(t, IF master_salt # None THEN "true" ELSE "false")
    /\ UNCHANGED <<mtx, Fields>>

\* is_master_unlocked (commands.rs:158-160)
g_is_master_unlocked(t) ==
    /\ Invoked(t)
    /\ Free("master_key")
    /\ Ends(t, IF master_key # None THEN "true" ELSE "false")
    /\ UNCHANGED <<mtx, Fields>>

\* recover_folder takes the master_key guard and returns at once, the guard
\* dropped, when there is no session key (commands.rs:169-170)
g_recover_folder(t, path) ==
    /\ Invoked(t)
    /\ Free("master_key")
    /\ IF master_key = None
       THEN Ends(t, "MasterNotUnlocked") /\ UNCHANGED mtx
       ELSE /\ mtx' = [mtx EXCEPT !["master_key"] = t]
            /\ th' = [th EXCEPT ![t] = [@ EXCEPT !.cmd = "recover_folder",
                                                 !.pc = "recovering", !.path = path]]
    /\ UNCHANGED Fields

\* folder::unlock_folder_with_master_key under the guard (commands.rs:171)
g_recover_folder_returns(t) ==
    /\ At(t, "recover_folder", "recovering")
    /\ LET path == th[t].path
           s == unlock_folder_with_master_key(TreeOf(disk, path), path, master_key,
                                              NoFault)
       IN  /\ disk' = IF path \in DOMAIN disk THEN [disk EXCEPT ![path] = s.fs]
                      ELSE disk
           /\ Ends(t, s.res)
    /\ mtx' = Dropped(t)
    /\ UNCHANGED <<folders, master_salt, master_verify_token, master_key, config>>

\* AppState::new over a configuration with one watched folder and no credential
InitGuards ==
    /\ folders = <<FolderPath>>
    /\ master_salt = None
    /\ master_verify_token = None
    /\ master_key = None
    /\ config = save(folders, None, None)
    /\ disk = [d \in Directories |-> [p \in {<<"", <<"a">>>>} |-> Plain(1)]]
    /\ th = [t \in Callers |-> Calm(0, "")]
    /\ mtx = [m \in Mutexes |-> 0]
    /\ fs = EmptyTree
    /\ rng = 0
    /\ last = NoCall
    /\ hist = NoHist
    /\ seen = {}

Outside == <<fs, rng, last, hist, seen>>

\* the steps of caller t that wait for a Mutex
Advances(t) ==
    \/ g_save_folders(t) /\ UNCHANGED Outside
    \/ g_save_salt(t) /\ UNCHANGED Outside
    \/ g_save_token(t) /\ UNCHANGED Outside
    \/ g_lock_all_folders(t) /\ UNCHANGED Outside
    \/ g_setup_token(t) /\ UNCHANGED Outside
    \/ g_setup_key(t) /\ UNCHANGED Outside
    \/ g_verify_token(t) /\ UNCHANGED Outside
    \/ g_verify_key(t) /\ UNCHANGED Outside

\* the returns of the file-system calls caller t makes with a guard held
CallReturns(t) ==
    \/ g_get_folders_returns(t) /\ UNCHANGED Outside
    \/ g_add_folder_push(t) /\ UNCHANGED Outside
    \/ g_save_write(t) /\ UNCHANGED Outside
    \/ \E ascending \in BOOLEAN : g_lock_folder_returns(t, ascending) /\ UNCHANGED Outside
    \/ \E ascending \in BOOLEAN : g_lock_all_returns(t, ascending) /\ UNCHANGED Outside
    \/ g_recover_folder_returns(t) /\ UNCHANGED Outside

\* the commands caller t may start
Invokes(t) ==
    \/ g_get_folders(t) /\ UNCHANGED Outside
    \/ \E path \in Directories : g_add_folder(t, path) /\ UNCHANGED Outside
    \/ \E path \in Paths : g_remove_folder(t, path) /\ UNCHANGED Outside
    \/ \E path \in Paths, password \in LockPasswords :
         g_lock_folder(t, path, password) /\ UNCHANGED Outside
    \/ \E password \in LockPasswords : g_lock_all(t, password) /\ UNCHANGED Outside
    \/ \E password \in MasterPasswords :
         g_setup_master_password(t, password) /\ UNCHANGED Outside
    \/ \E password \in MasterPasswords :
         g_verify_master_password(t, password) /\ UNCHANGED Outside
    \/ g_has_master_password(t) /\ UNCHANGED Outside
    \/ g_is_master_unlocked(t) /\ UNCHANGED Outside
    \/ \E path \in Paths : g_recover_folder(t, path) /\ UNCHANGED Outside

NextGuards == \E t \in Callers : Invokes(t) \/ Advances(t) \/ CallReturns(t)

\* a thread whose Mutex stays free eventually takes it
SpecGuards ==
    /\ InitGuards
    /\ [][NextGuards]_vars
    /\ \A t \in Callers : WF_vars(Advances(t))

\* caller t is in a file-system call it makes with a guard held
InCall(t) == th[t].pc \in {"listing", "push", "save_write", "locking", "loop", "recovering"}

\* the Mutex the next step of caller t asks for, "" when it asks for none
Wants(t) ==
    CASE th[t].pc \in {"save", "folders"} -> "folders"
      [] th[t].pc = "save_salt" -> "master_salt"
      [] th[t].pc = "save_token" -> "master_verify_token"
      [] th[t].pc = "token" -> "master_verify_token"
      [] th[t].pc = "key" -> "master_key"
      [] OTHER -> ""

Waits(t) == Wants(t) # "" /\ ~Free(Wants(t))

\* C21: no interleaving of the commands deadlocks on the Mutexes of AppState:
\* provided the file-system calls made with a guard held return, every command
\* that has started takes the guards it asks for and returns.
C21_EveryCommandReturns ==
    (\A t \in Callers : []<>(~InCall(t)))
       => (\A t \in Callers : (th[t].pc # "idle") ~> (th[t].pc = "idle"))

\* C21: a caller inside save holds the folders and master_salt guards and is
\* about to ask for master_verify_token while another caller waits for folders
C21_Witness ==
    \E t \in Callers : \E u \in Callers \ {t} :
       /\ th[t].pc = "save_token" /\ mtx["folders"] = t /\ mtx["master_salt"] = t
       /\ Waits(u) /\ Wants(u) = "folders"

====
